---- MODULE Spec2Model ----
(***************************************************************************)
(* Football-Standings backend: the cache-aside route                       *)
(*   GET /standings/:competitionId        (backend/server.js lines 21-45)  *)
(* The handler is an async function; it suspends at each await             *)
(* (redisClient.get, axios.get, redisClient.setEx).  Each action below is  *)
(* one run of the handler from one suspension point to the next, together  *)
(* with the completion of the awaited I/O operation that resumes it.       *)
(***************************************************************************)
EXTENDS Integers, Sequences, FiniteSets, TLC

(* ---------------------------------------------------------------------- *)
(* Bounds                                                                 *)
(* ---------------------------------------------------------------------- *)
MaxReqs == 2
MaxTime == 1350
TickStep == 450

(* ---------------------------------------------------------------------- *)
(* Program constants                                                      *)
(* ---------------------------------------------------------------------- *)
TTL == 900
StatusOK == 200
StatusError == 500

Reqs == 1..MaxReqs
Comps == {"2021", "2014"}

\* The successive standings tables the upstream provider publishes.
Tables == << <<"ARS", "LIV">>, <<"LIV", "ARS">> >>
Versions == 1..Len(Tables)

\* response.data of a successful upstream call for competition c at version v
UpstreamDoc(c, v) == [competition |-> c, table |-> Tables[v]]

NoDoc == [competition |-> "", table |-> <<>>]
NoBody == [none |-> TRUE]
ErrorBody == [error |-> "Failed to fetch standings"]

\* (variant) the competition id is left out of the key
redisKeyShared(competitionId) == <<"standings:", "">>

\* const redisKey = `standings:${competitionId}`
redisKey(competitionId) == <<"standings:", competitionId>>

(* ---------------------------------------------------------------------- *)
(* JSON.stringify / JSON.parse on the documents above.  A serialized      *)
(* document is a sequence of tokens.                                      *)
(* ---------------------------------------------------------------------- *)
\* (variant) nested arrays are serialized empty
StringifyShallow(d) ==
    <<"{", "competition", d.competition, "table", "[", "]", "}">>

Stringify(d) ==
    <<"{", "competition", d.competition, "table", "[">> \o d.table \o <<"]", "}">>

ParseOK(s) ==
    /\ Len(s) >= 7
    /\ s[1] = "{"
    /\ s[2] = "competition"
    /\ s[4] = "table"
    /\ s[5] = "["
    /\ s[Len(s) - 1] = "]"
    /\ s[Len(s)] = "}"

Parse(s) == [competition |-> s[3], table |-> SubSeq(s, 6, Len(s) - 2)]

Null == <<>>

(* ---------------------------------------------------------------------- *)
(* The cache store: a set of entries [key, value, exp].                   *)
(* ---------------------------------------------------------------------- *)
\* (variant) the expiry argument is dropped: the entry is stored with a zero TTL
SetExZeroTtl(store, key, seconds, value, t) ==
    {e \in store : e.key # key} \cup {[key |-> key, value |-> value, exp |-> t]}

\* (variant) a write adds an entry without replacing the one already under the key
SetExAppend(store, key, seconds, value, t) ==
    store \cup {[key |-> key, value |-> value, exp |-> t + seconds]}

\* (variant) the value is stored only if the key holds nothing (SET ... NX)
SetExIfAbsent(store, key, seconds, value, t) ==
    IF \E e \in store : e.key = key
    THEN store
    ELSE store \cup {[key |-> key, value |-> value, exp |-> t + seconds]}

\* SETEX key seconds value at time t
SetEx(store, key, seconds, value, t) ==
    {e \in store : e.key # key} \cup {[key |-> key, value |-> value, exp |-> t + seconds]}

\* (variant) entries never expire
LiveForever(e, t) == TRUE

\* An entry is gone once its expiry time has passed; at the very instant of
\* expiry the store may or may not still return it.
Live(e, t) == t < e.exp
AtEdge(e, t) == t = e.exp

\* (variant) the lookup never finds anything
GetNothing(store, key, t) == {Null}

\* GET key at time t: the set of values the store may reply with
Get(store, key, t) ==
    LET live == {e \in store : e.key = key /\ Live(e, t)}
        edge == {e \in store : e.key = key /\ AtEdge(e, t)}
    IN  IF live # {} THEN {e.value : e \in live}
        ELSE {e.value : e \in edge} \cup {Null}

(* ---------------------------------------------------------------------- *)
(* Presentation layer: the App component of src/frontend/src/App.tsx.     *)
(* ---------------------------------------------------------------------- *)
MaxFetches == 3
Fetches == 1..MaxFetches

\* a TableEntry, reduced to the fields the rankings read
Row(team, playedGames, won, goalsFor, goalsAgainst) ==
    [team |-> team, playedGames |-> playedGames, won |-> won,
     goalsFor |-> goalsFor, goalsAgainst |-> goalsAgainst]

\* Tables the service can answer with, rows in position order (by points):
\* one where every ranking agrees with the positions, one where the second
\* team has won more matches, one with equal win rates.
TotalTables ==
    { << Row("ARS", 38, 26, 88, 28), Row("LIV", 38, 24, 80, 35) >>,
      << Row("ARS", 38, 24, 70, 30), Row("LIV", 38, 25, 85, 40) >>,
      << Row("ARS", 38, 24, 70, 35), Row("LIV", 38, 24, 80, 30),
         Row("MCI", 38, 23, 90, 20) >> }

Reverse(s) == [i \in 1..Len(s) |-> s[Len(s) + 1 - i]]

\* A StandingsResponse for competition c whose TOTAL table is t; the service
\* sends the TOTAL standing alone or after a HOME standing.
StandingsResponse(c, t, withHome) ==
    [competition |-> c,
     standings |-> IF withHome
                   THEN << [type |-> "HOME", table |-> Reverse(t)],
                           [type |-> "TOTAL", table |-> t] >>
                   ELSE << [type |-> "TOTAL", table |-> t] >>]

Responses(c) ==
    {StandingsResponse(c, t, h) : t \in TotalTables, h \in BOOLEAN}

NoStandings == [competition |-> "", standings |-> <<>>]
null == "null"
ErrorMessage == "Failed to load standings. Please try again later."

\* standings.standings.find(s => s.type === 'TOTAL') || standings.standings[0]
totalIndex(d) ==
    IF \E i \in 1..Len(d.standings) : d.standings[i].type = "TOTAL"
    THEN CHOOSE i \in 1..Len(d.standings) :
            /\ d.standings[i].type = "TOTAL"
            /\ \A j \in 1..(i - 1) : d.standings[j].type # "TOTAL"
    ELSE 1

totalStandings(d) == d.standings[totalIndex(d)]

\* The compare functions handed to Array.prototype.sort: negative when a goes
\* before b.  The win rates won / playedGames are compared by cross
\* multiplication (playedGames > 0 in every row above).
compareFn(by, a, b) ==
    CASE by = "goalsFor" -> b.goalsFor - a.goalsFor
      [] by = "goalsAgainst" -> a.goalsAgainst - b.goalsAgainst
      [] by = "winRate" -> b.won * a.playedGames - a.won * b.playedGames

\* Array.prototype.sort: a stable sort; row i goes behind the rows that
\* compare before it and behind the equal rows that stood before it.
sort(t, by) ==
    LET pos(i) == 1 + Cardinality({j \in 1..Len(t) :
                         \/ compareFn(by, t[j], t[i]) < 0
                         \/ compareFn(by, t[j], t[i]) = 0 /\ j < i})
    IN  [p \in 1..Len(t) |-> t[CHOOSE i \in 1..Len(t) : pos(i) = p]]

Teams(t) == [i \in 1..Len(t) |-> t[i].team]

\* One render of StandingsTable: the Standings tab lists the rows of the
\* array as it is, then the three rankings of the Team Stats tab sort that
\* same array in place, one after the other.
StandingsTable(d) ==
    LET i == totalIndex(d)
        byGoalsFor == sort(d.standings[i].table, "goalsFor")
        byGoalsAgainst == sort(byGoalsFor, "goalsAgainst")
        byWinRate == sort(byGoalsAgainst, "winRate")
    IN  [rows |-> Teams(d.standings[i].table),
         standings |-> [d EXCEPT !.standings[i].table = byWinRate]]

\* loading ? skeleton : error ? message : standings ? table : null
View(u) ==
    IF u.loading THEN "skeleton"
    ELSE IF u.error # null THEN "error"
    ELSE IF u.standings # NoStandings THEN "table"
    ELSE "none"

\* React renders App again after a state change; StandingsTable is rendered
\* when the view is the table.  shown is the row order the Standings tab
\* lists, message the text of the error card.
Render(u) ==
    IF View(u) = "table"
    THEN LET out == StandingsTable(u.standings)
         IN  [u EXCEPT !.shown = out.rows, !.message = null,
                       !.standings = out.standings]
    ELSE [u EXCEPT !.shown = <<>>,
                   !.message = IF View(u) = "error" THEN u.error ELSE null]

IdleFetch == [pc |-> "idle", competition |-> "", outcome |-> "none",
              cause |-> "none", data |-> NoStandings]

\* The useState initial values; issued counts the fetches started, received
\* keeps the document last handed to setStandings as it arrived.
InitialUI ==
    [selectedCompetition |-> "2021", standings |-> NoStandings,
     loading |-> FALSE, error |-> null, theme |-> "light",
     fetch |-> [f \in Fetches |-> IdleFetch], issued |-> 0,
     shown |-> <<>>, message |-> null, received |-> NoStandings]

\* fetchStandings up to `await fetch(...)`
fetchStandings(u) ==
    LET f == u.issued + 1
    IN  [u EXCEPT !.loading = TRUE, !.error = null, !.issued = f,
                  !.fetch[f] = [IdleFetch EXCEPT !.pc = "fetch",
                                   !.competition = u.selectedCompetition]]

\* (variant) the message names what went wrong
FailedShowsCause(u, f, cause) ==
    [u EXCEPT !.error = cause, !.loading = FALSE,
              !.fetch[f] = [@ EXCEPT !.pc = "done", !.outcome = "error",
                                     !.cause = cause]]

\* catch { setError('Failed to load standings. ...') } finally { setLoading(false) }
Failed(u, f, cause) ==
    [u EXCEPT !.error = ErrorMessage, !.loading = FALSE,
              !.fetch[f] = [@ EXCEPT !.pc = "done", !.outcome = "error",
                                     !.cause = cause]]

VARIABLES now, cache, upVer, upSeen, req, lastWriter, overlapped, ui

vars == <<now, cache, upVer, upSeen, req, lastWriter, overlapped, ui>>

IdleReq == [pc |-> "idle", competitionId |-> "", cachedData |-> Null, data |-> NoDoc,
            status |-> 0, body |-> NoBody, fail |-> "none", src |-> "none",
            hitWriter |-> 0, readAt |-> 0, fetchedAt |-> 0, wroteAt |-> 0,
            reads |-> 0, upcalls |-> 0, writes |-> 0, responses |-> 0,
            startWriter |-> 0, setexs |-> 0, gotAt |-> 0]

Init ==
    /\ now = 0
    /\ cache = {}
    /\ upVer = [c \in Comps |-> 1]
    /\ upSeen = [c \in Comps |-> {}]
    /\ req = [r \in Reqs |-> IdleReq]
    /\ lastWriter = [c \in Comps |-> 0]
    /\ overlapped = [c \in Comps |-> FALSE]
    /\ ui = InitialUI

InFlight(r) == req[r].pc \in {"read", "fetch", "write"}

\* res.json(body) / res.status(500).json(body)
Respond(rec, status, body) ==
    [rec EXCEPT !.pc = "done", !.status = status, !.body = body,
                !.responses = rec.responses + 1]

\* (variant) the handler reports the cause of the failure to the client
CatchLeaksCause(rec, why) ==
    [Respond(rec, StatusError, [error |-> why]) EXCEPT !.fail = why]

\* catch (error) { res.status(500).json({ error: "Failed to fetch standings" }) }
Catch(rec, why) ==
    [Respond(rec, StatusError, ErrorBody) EXCEPT !.fail = why]

\* The request whose completed write put the entry now stored for c, if that
\* write is less than TTL seconds old (0 if there is none).
FreshWriter(c) ==
    IF \E e \in cache : e.key = redisKey(c) /\ now < e.exp THEN lastWriter[c] ELSE 0

\* A request arrives; the handler runs up to `await redisClient.get(redisKey)`.
Start(r, c) ==
    /\ req[r].pc = "idle"
    /\ \A q \in Reqs : q < r => req[q].pc # "idle"
    /\ req' = [req EXCEPT ![r] = [@ EXCEPT !.pc = "read", !.competitionId = c,
                                           !.startWriter = FreshWriter(c)]]
    /\ overlapped' = [overlapped EXCEPT ![c] =
                         @ \/ \E q \in Reqs : InFlight(q) /\ req[q].competitionId = c]
    /\ UNCHANGED <<ui, now, cache, upVer, upSeen, lastWriter>>

\* (variant) the cached value is ignored and the handler always goes upstream
ReadHitRefetch(r) ==
    /\ req[r].pc = "read"
    /\ \E v \in Get(cache, redisKey(req[r].competitionId), now) :
          /\ v # Null
          /\ req' = [req EXCEPT ![r] = [@ EXCEPT !.pc = "fetch", !.cachedData = v,
                                                 !.reads = @ + 1, !.upcalls = @ + 1,
                                                 !.fetchedAt = now]]
    /\ UNCHANGED <<ui, now, cache, upVer, upSeen, lastWriter, overlapped>>

\* redisClient.get resolves with a value that is truthy: parse and respond.
ReadHit(r) ==
    /\ req[r].pc = "read"
    /\ \E v \in Get(cache, redisKey(req[r].competitionId), now) :
          /\ v # Null
          /\ LET rec == [req[r] EXCEPT !.cachedData = v, !.reads = @ + 1,
                                       !.readAt = now,
                                       !.hitWriter = lastWriter[req[r].competitionId]]
             IN  req' = [req EXCEPT ![r] =
                    IF ParseOK(v)
                    THEN [Respond(rec, StatusOK, Parse(v)) EXCEPT !.src = "cache"]
                    ELSE Catch(rec, "parse")]
    /\ UNCHANGED <<ui, now, cache, upVer, upSeen, lastWriter, overlapped>>

\* redisClient.get resolves with null: the handler issues the upstream call.
ReadMiss(r) ==
    /\ req[r].pc = "read"
    /\ Null \in Get(cache, redisKey(req[r].competitionId), now)
    /\ req' = [req EXCEPT ![r] = [@ EXCEPT !.pc = "fetch", !.reads = @ + 1,
                                           !.upcalls = @ + 1,
                                           !.fetchedAt = now]]
    /\ UNCHANGED <<ui, now, cache, upVer, upSeen, lastWriter, overlapped>>

\* redisClient.get rejects (cache store unavailable): control goes to catch.
ReadFail(r) ==
    /\ req[r].pc = "read"
    /\ req' = [req EXCEPT ![r] = Catch([@ EXCEPT !.reads = @ + 1], "read")]
    /\ UNCHANGED <<ui, now, cache, upVer, upSeen, lastWriter, overlapped>>

\* (variant) the response is sent as soon as upstream answers, before the write
FetchOkRespondsFirst(r) ==
    /\ req[r].pc = "fetch"
    /\ LET c == req[r].competitionId
           d == UpstreamDoc(c, upVer[c])
       IN  /\ req' = [req EXCEPT ![r] = [@ EXCEPT !.pc = "write", !.data = d,
                                                  !.setexs = @ + 1, !.gotAt = now,
                                                  !.status = StatusOK, !.body = d,
                                                  !.responses = @ + 1]]
           /\ upSeen' = [upSeen EXCEPT ![c] = @ \cup {d}]
    /\ UNCHANGED <<ui, now, cache, upVer, lastWriter, overlapped>>

\* (variant) after upstream answers the handler awaits a promise that never settles
FetchOkHangs(r) ==
    /\ req[r].pc = "fetch"
    /\ LET c == req[r].competitionId
           d == UpstreamDoc(c, upVer[c])
       IN  /\ req' = [req EXCEPT ![r] = [@ EXCEPT !.pc = "hung", !.data = d,
                                                  !.setexs = @ + 1, !.gotAt = now]]
           /\ upSeen' = [upSeen EXCEPT ![c] = @ \cup {d}]
    /\ UNCHANGED <<ui, now, cache, upVer, lastWriter, overlapped>>

\* axios.get resolves: the handler issues setEx with the serialized data.
FetchOk(r) ==
    /\ req[r].pc = "fetch"
    /\ LET c == req[r].competitionId
           d == UpstreamDoc(c, upVer[c])
       IN  /\ req' = [req EXCEPT ![r] = [@ EXCEPT !.pc = "write", !.data = d,
                                                  !.setexs = @ + 1, !.gotAt = now]]
           /\ upSeen' = [upSeen EXCEPT ![c] = @ \cup {d}]
    /\ UNCHANGED <<ui, now, cache, upVer, lastWriter, overlapped>>

\* (variant) the error reply of the failed upstream call is cached
FetchFailStoresError(r) ==
    /\ req[r].pc = "fetch"
    /\ cache' = SetEx(cache, redisKey(req[r].competitionId), TTL, Stringify(NoDoc), now)
    /\ req' = [req EXCEPT ![r] = Catch(@, "upstream")]
    /\ UNCHANGED <<ui, now, upVer, upSeen, lastWriter, overlapped>>

\* (variant) a failed upstream call is retried once before giving up
FetchFailRetries(r) ==
    /\ req[r].pc = "fetch"
    /\ req' = [req EXCEPT ![r] =
           IF @.upcalls < 2
           THEN [@ EXCEPT !.upcalls = @ + 1, !.fetchedAt = now]
           ELSE Catch(@, "upstream")]
    /\ UNCHANGED <<ui, now, cache, upVer, upSeen, lastWriter, overlapped>>

\* axios.get rejects (network error or non-2xx status): control goes to catch.
FetchFail(r) ==
    /\ req[r].pc = "fetch"
    /\ req' = [req EXCEPT ![r] = Catch(@, "upstream")]
    /\ UNCHANGED <<ui, now, cache, upVer, upSeen, lastWriter, overlapped>>

\* (variant) the upstream client memoizes its first answer per competition and
\* that first answer is what gets stored
WriteOkStoresOldest(r) ==
    /\ req[r].pc = "write"
    /\ LET c == req[r].competitionId
           first == CHOOSE d \in upSeen[c] :
                       \A d2 \in upSeen[c] :
                          (CHOOSE v \in Versions : Tables[v] = d.table)
                             <= (CHOOSE v \in Versions : Tables[v] = d2.table)
       IN  /\ cache' = SetEx(cache, redisKey(c), TTL, Stringify(first), now)
           /\ lastWriter' = [lastWriter EXCEPT ![c] = r]
           /\ req' = [req EXCEPT ![r] =
                  [Respond([@ EXCEPT !.writes = @ + 1, !.wroteAt = now], StatusOK, @.data)
                       EXCEPT !.src = "upstream"]]
    /\ UNCHANGED <<ui, now, upVer, upSeen, overlapped>>

\* redisClient.setEx resolves: the entry is stored, then res.json(response.data).
WriteOk(r) ==
    /\ req[r].pc = "write"
    /\ LET c == req[r].competitionId
       IN  /\ cache' = SetEx(cache, redisKey(c), TTL, Stringify(req[r].data), now)
           /\ lastWriter' = [lastWriter EXCEPT ![c] = r]
           /\ req' = [req EXCEPT ![r] =
                  [Respond([@ EXCEPT !.writes = @ + 1, !.wroteAt = now], StatusOK, @.data)
                       EXCEPT !.src = "upstream"]]
    /\ UNCHANGED <<ui, now, upVer, upSeen, overlapped>>

\* redisClient.setEx rejects (cache store unavailable): control goes to catch.
WriteFail(r) ==
    /\ req[r].pc = "write"
    /\ req' = [req EXCEPT ![r] = Catch(@, "write")]
    /\ UNCHANGED <<ui, now, cache, upVer, upSeen, lastWriter, overlapped>>

\* The upstream provider publishes a new standings table for competition c.
UpstreamUpdate(c) ==
    /\ upVer[c] < Len(Tables)
    /\ upVer' = [upVer EXCEPT ![c] = @ + 1]
    /\ UNCHANGED <<ui, now, cache, upSeen, req, lastWriter, overlapped>>

\* Time passes.
Tick ==
    /\ now + TickStep <= MaxTime
    /\ now' = now + TickStep
    /\ UNCHANGED <<ui, cache, upVer, upSeen, req, lastWriter, overlapped>>

Next ==
    \/ \E r \in Reqs, c \in Comps : Start(r, c)
    \/ \E r \in Reqs : ReadHit(r)
    \/ \E r \in Reqs : ReadMiss(r)
    \/ \E r \in Reqs : ReadFail(r)
    \/ \E r \in Reqs : FetchOk(r)
    \/ \E r \in Reqs : FetchFail(r)
    \/ \E r \in Reqs : WriteOk(r)
    \/ \E r \in Reqs : WriteFail(r)
    \/ \E c \in Comps : UpstreamUpdate(c)
    \/ Tick

Spec == Init /\ [][Next]_vars

\* Each awaited operation of a started request eventually settles: the cache
\* read, the upstream call and the cache write.
ReadSettles(r) == ReadHit(r) \/ ReadMiss(r) \/ ReadFail(r)
FetchSettles(r) == FetchOk(r) \/ FetchFail(r)
WriteSettles(r) == WriteOk(r) \/ WriteFail(r)

\* The steps of the handlers and of the upstream provider.  The clock is left
\* out: it only decides whether a read hits or misses, and both happen
\* without it (a miss on the empty store, a hit after a write).
NextLive ==
    \/ \E r \in Reqs, c \in Comps : Start(r, c)
    \/ \E r \in Reqs : ReadHit(r)
    \/ \E r \in Reqs : ReadMiss(r)
    \/ \E r \in Reqs : ReadFail(r)
    \/ \E r \in Reqs : FetchOk(r)
    \/ \E r \in Reqs : FetchFail(r)
    \/ \E r \in Reqs : WriteOk(r)
    \/ \E r \in Reqs : WriteFail(r)
    \/ \E c \in Comps : UpstreamUpdate(c)

SpecLive ==
    /\ Init
    /\ [][NextLive]_vars
    /\ \A r \in Reqs : /\ WF_vars(ReadSettles(r))
                       /\ WF_vars(FetchSettles(r))
                       /\ WF_vars(WriteSettles(r))

\* The store is an external service reached through REDIS_URL: it may already
\* hold, under one of the keys, a value that this process did not write and
\* that is not a JSON text.
Corrupt == <<"{", "competition">>

InitForeign ==
    /\ now = 0
    /\ \E c \in Comps : cache = {[key |-> redisKey(c), value |-> Corrupt, exp |-> TTL]}
    /\ upVer = [c \in Comps |-> 1]
    /\ upSeen = [c \in Comps |-> {}]
    /\ req = [r \in Reqs |-> IdleReq]
    /\ lastWriter = [c \in Comps |-> 0]
    /\ overlapped = [c \in Comps |-> FALSE]
    /\ ui = InitialUI

SpecForeign == InitForeign /\ [][Next]_vars


(* ---------------------------------------------------------------------- *)
(* The steps of the App component.  The service is its environment: a     *)
(* fetch is rejected, answered with a non-OK status, or answered OK with  *)
(* a body that parses to a standings document or does not parse.  The     *)
(* setState calls made in one continuation are rendered once.             *)
(* ---------------------------------------------------------------------- *)
backend == <<now, cache, upVer, upSeen, req, lastWriter, overlapped>>

\* first render, then the effect runs for the initial selection
Mount ==
    /\ ui.issued = 0
    /\ ui' = Render(fetchStandings(ui))
    /\ UNCHANGED backend

\* the user picks another competition; the effect runs again
handleCompetitionChange(value) ==
    /\ ui.issued > 0
    /\ ui.issued < MaxFetches
    /\ value # ui.selectedCompetition
    /\ ui' = Render(fetchStandings([ui EXCEPT !.selectedCompetition = value]))
    /\ UNCHANGED backend

toggleTheme ==
    /\ ui.issued > 0
    /\ ui' = Render([ui EXCEPT !.theme = IF @ = "light" THEN "dark" ELSE "light"])
    /\ UNCHANGED backend

\* await fetch(...) rejects (network error)
FetchRejects(f) ==
    /\ ui.fetch[f].pc = "fetch"
    /\ ui' = Render(Failed(ui, f, "network"))
    /\ UNCHANGED backend

\* the response has a non-OK status: throw new Error(...)
ResponseNotOk(f) ==
    /\ ui.fetch[f].pc = "fetch"
    /\ ui' = Render(Failed(ui, f, "status"))
    /\ UNCHANGED backend

\* the response is OK; the function waits at `await response.json()`
ResponseOk(f) ==
    /\ ui.fetch[f].pc = "fetch"
    /\ ui' = [ui EXCEPT !.fetch[f].pc = "json"]
    /\ UNCHANGED backend

\* response.json() rejects: the body is not a JSON text
JsonRejects(f) ==
    /\ ui.fetch[f].pc = "json"
    /\ ui' = Render(Failed(ui, f, "body"))
    /\ UNCHANGED backend

\* response.json() resolves: setStandings(data), then setLoading(false)
JsonResolves(f, data) ==
    /\ ui.fetch[f].pc = "json"
    /\ data \in Responses(ui.fetch[f].competition)
    /\ ui' = Render([ui EXCEPT !.standings = data, !.received = data,
                               !.loading = FALSE,
                               !.fetch[f] = [@ EXCEPT !.pc = "done",
                                                !.outcome = "data",
                                                !.data = data]])
    /\ UNCHANGED backend

NextUI ==
    \/ Mount
    \/ \E value \in Comps : handleCompetitionChange(value)
    \/ toggleTheme
    \/ \E f \in Fetches : FetchRejects(f)
    \/ \E f \in Fetches : ResponseNotOk(f)
    \/ \E f \in Fetches : ResponseOk(f)
    \/ \E f \in Fetches : JsonRejects(f)
    \/ \E f \in Fetches, c \in Comps : \E data \in Responses(c) : JsonResolves(f, data)

SpecUI == Init /\ [][NextUI]_vars

Pending(f) == ui.fetch[f].pc \in {"fetch", "json"}

(* ---------------------------------------------------------------------- *)
(* Helpers for the properties                                             *)
(* ---------------------------------------------------------------------- *)
\* request r takes a step
Steps(r) == req'[r] # req[r]

EntriesFor(store, c) == {e \in store : e.key = redisKey(c)}

\* the continuation after `await redisClient.get` runs with a result
ReadReturns(r) == req[r].pc = "read" /\ Steps(r) /\ req'[r].fail # "read"

\* the continuation after `await redisClient.setEx` runs without an error
WriteReturns(r) == req[r].pc = "write" /\ Steps(r) /\ req'[r].fail # "write"

(* ---------------------------------------------------------------------- *)
(* C1  Cache hit skips upstream: when the cache read of a request for c   *)
(* returns and the store holds an unexpired entry under "standings:"+c,   *)
(* the request responds 200 with exactly the document stored in that      *)
(* entry, has issued no upstream call and performs no cache write.        *)
(* ---------------------------------------------------------------------- *)
C1_CacheHitSkipsUpstream ==
    [][\A r \in Reqs :
         LET c == req[r].competitionId IN
         (ReadReturns(r) /\ (req'[r].cachedData # Null
                             \/ \E e \in EntriesFor(cache, c) : now < e.exp))
         => /\ req'[r].pc = "done"
            /\ req'[r].status = StatusOK
            /\ req'[r].responses = 1
            /\ \E e \in EntriesFor(cache, c) :
                  /\ now <= e.exp
                  /\ Stringify(req'[r].body) = e.value
            /\ req'[r].upcalls = 0
            /\ req'[r].writes = 0
            /\ cache' = cache
            /\ upSeen' = upSeen]_vars

C1_Witness ==
    \E r \in Reqs : req[r].pc = "done" /\ req[r].src = "cache" /\ req[r].status = StatusOK

(* ---------------------------------------------------------------------- *)
(* C2  Cache miss populates cache: a request for c whose read found no    *)
(* entry and whose upstream call succeeded has issued exactly one         *)
(* upstream call; when its setEx completes the store holds, as the only   *)
(* entry under "standings:"+c, the serialized upstream document with an   *)
(* expiry of 900 seconds from the write, and the request responds 200     *)
(* with that same document; the remaining TTL is then at most 900.        *)
(* ---------------------------------------------------------------------- *)
C2_CacheMissPopulates ==
    [][\A r \in Reqs :
         LET c == req[r].competitionId
             d == req[r].data
         IN  WriteReturns(r)
             => /\ req[r].cachedData = Null
                /\ d \in upSeen[c]
                /\ req'[r].upcalls = 1
                /\ req'[r].writes = 1
                /\ req'[r].pc = "done"
                /\ req'[r].responses = 1
                /\ req'[r].status = StatusOK
                /\ req'[r].body = d
                /\ EntriesFor(cache', c) =
                      {[key |-> redisKey(c), value |-> Stringify(d), exp |-> now + TTL]}
                /\ \A e \in EntriesFor(cache', c) :
                      /\ e.exp - now' <= TTL
                      /\ e.exp - now' > 0
                      /\ Parse(e.value) = req'[r].body]_vars

C2_Witness ==
    \E r \in Reqs :
       /\ req[r].pc = "done" /\ req[r].src = "upstream" /\ req[r].upcalls = 1
       /\ \E e \in EntriesFor(cache, req[r].competitionId) :
             e.value = Stringify(req[r].body) /\ e.exp = req[r].wroteAt + TTL

C4_ExpiryCausesRefetch ==
    [][\A r \in Reqs :
         LET c == req[r].competitionId IN
         /\ ReadReturns(r)
            => /\ (\A e \in EntriesFor(cache, c) : now > e.exp)
                  => /\ req'[r].pc = "fetch"
                     /\ req'[r].upcalls = 1
                     /\ req'[r].fetchedAt = now
               /\ req'[r].src = "cache"
                  => /\ req'[r].hitWriter \in Reqs
                     /\ req[req'[r].hitWriter].src = "upstream"
                     /\ now - req[req'[r].hitWriter].wroteAt <= TTL
         /\ WriteReturns(r)
            => \E e \in EntriesFor(cache', c) : e.exp = now + TTL]_vars

\* an entry was written, expired, and a later request fetched again and rewrote it
C4_Witness ==
    \E r, w \in Reqs :
       /\ r # w
       /\ req[r].competitionId = req[w].competitionId
       /\ req[w].src = "upstream" /\ req[r].src = "upstream"
       /\ req[r].fetchedAt > req[w].wroteAt + TTL
       /\ \E e \in EntriesFor(cache, req[r].competitionId) : e.exp = req[r].wroteAt + TTL

(* ---------------------------------------------------------------------- *)
(* C5  (as stated) At most one upstream call per competition per TTL      *)
(* window: while no cache operation and no upstream call has failed, no   *)
(* two upstream calls for the same competition id are issued less than    *)
(* 900 seconds apart, whether or not the requests overlap.                *)
(* ---------------------------------------------------------------------- *)
NoFailureSoFar == \A r \in Reqs : req[r].fail = "none"

CallsApart(c) ==
    \A r1, r2 \in Reqs :
       (/\ r1 # r2
        /\ req[r1].competitionId = c /\ req[r2].competitionId = c
        /\ req[r1].upcalls > 0 /\ req[r2].upcalls > 0
        /\ req[r1].fetchedAt <= req[r2].fetchedAt)
       => req[r2].fetchedAt - req[r1].fetchedAt >= TTL

C5_AtMostOncePerWindow ==
    NoFailureSoFar => \A c \in Comps : CallsApart(c)

(* C5  (amended) The same, for the competitions whose requests have not   *)
(* been handled at overlapping times: each was handled to completion      *)
(* before the next one for that id arrived.                               *)
C5_AtMostOncePerWindowSerial ==
    NoFailureSoFar => \A c \in Comps : ~overlapped[c] => CallsApart(c)

\* two requests for one competition, one after the other, both went upstream
C5_Witness ==
    /\ NoFailureSoFar
    /\ \E r1, r2 \in Reqs :
          /\ r1 # r2
          /\ req[r1].competitionId = req[r2].competitionId
          /\ req[r1].src = "upstream" /\ req[r2].src = "upstream"
          /\ ~overlapped[req[r1].competitionId]
          /\ req[r2].fetchedAt - req[r1].fetchedAt >= TTL

(* ---------------------------------------------------------------------- *)
(* C6  Cache-content invariant: the store holds at most one entry per     *)
(* competition id, under "standings:"+id, and every stored value is the   *)
(* serialization of a complete document that the upstream provider has    *)
(* returned for that same competition id.                                 *)
(* ---------------------------------------------------------------------- *)
C6_CacheContent ==
    /\ \A c \in Comps : Cardinality(EntriesFor(cache, c)) <= 1
    /\ \A e \in cache :
          \E c \in Comps :
             /\ e.key = redisKey(c)
             /\ \E d \in upSeen[c] : e.value = Stringify(d) /\ Parse(e.value) = d

\* an entry has been overwritten with a newer upstream document
C6_Witness ==
    \E c \in Comps :
       /\ Cardinality(upSeen[c]) = 2
       /\ \A r \in Reqs : req[r].src = "upstream" /\ req[r].competitionId = c
       /\ EntriesFor(cache, c) # {}

(* ---------------------------------------------------------------------- *)
(* C7  Cache unavailability does not fail a request: a request whose      *)
(* cache read failed went on to the upstream call, and a request whose    *)
(* upstream call succeeded responds 200 with the upstream document, also  *)
(* when its cache write failed.                                           *)
(* ---------------------------------------------------------------------- *)
C7_CacheFailureTolerated ==
    \A r \in Reqs :
       req[r].pc = "done"
       => /\ req[r].fail = "read" => req[r].upcalls = 1
          /\ req[r].data # NoDoc
             => req[r].status = StatusOK /\ req[r].body = req[r].data

(* ---------------------------------------------------------------------- *)
(* C8  Distinct keys are isolated: a step of a request for c leaves the   *)
(* entries (value and expiry) of every other competition d unchanged,     *)
(* and a document returned with status 200 for a competition is never a   *)
(* document that upstream returned for another competition.               *)
(* ---------------------------------------------------------------------- *)
C8_DistinctKeysIsolated ==
    [][\A r \in Reqs :
         Steps(r)
         => \A d \in Comps \ {req'[r].competitionId} :
               /\ EntriesFor(cache', d) = EntriesFor(cache, d)
               /\ req'[r].status = StatusOK => req'[r].body \notin upSeen'[d]]_vars

\* both competitions are cached, each with its own document
C8_Witness ==
    /\ \A c \in Comps : EntriesFor(cache, c) # {}
    /\ \E r1, r2 \in Reqs :
          /\ req[r1].competitionId # req[r2].competitionId
          /\ req[r1].status = StatusOK /\ req[r2].status = StatusOK

(* ---------------------------------------------------------------------- *)
(* C9  No partial results: a request has no response until it is done and *)
(* exactly one then; the response is (a) 200 with the complete document   *)
(* read from the cache, (b) 200 with the complete document just returned  *)
(* by upstream, or (c) 500 with {"error": "Failed to fetch standings"};   *)
(* every failure inside the handler ends in (c).                          *)
(* ---------------------------------------------------------------------- *)
FromCache(r) ==
    /\ req[r].status = StatusOK /\ req[r].src = "cache" /\ req[r].fail = "none"
    /\ req[r].cachedData # Null
    /\ Stringify(req[r].body) = req[r].cachedData

FromUpstream(r) ==
    /\ req[r].status = StatusOK /\ req[r].src = "upstream" /\ req[r].fail = "none"
    /\ req[r].body = req[r].data
    /\ req[r].data \in upSeen[req[r].competitionId]

GenericError(r) ==
    /\ req[r].status = StatusError /\ req[r].src = "none"
    /\ req[r].body = ErrorBody

C9_NoPartialResults ==
    \A r \in Reqs :
       /\ req[r].responses <= 1
       /\ req[r].pc # "done" => req[r].responses = 0 /\ req[r].body = NoBody
       /\ req[r].pc = "done"
          => /\ req[r].responses = 1
             /\ FromCache(r) \/ FromUpstream(r) \/ GenericError(r)
       /\ req[r].fail # "none" => req[r].pc = "done" /\ GenericError(r)

\* a cached value that does not parse and a cache write failure both ended in
\* the generic error
C9_Witness ==
    \E r1, r2 \in Reqs :
       /\ req[r1].pc = "done" /\ req[r1].fail = "parse" /\ req[r1].cachedData = Corrupt
       /\ req[r2].pc = "done" /\ req[r2].fail = "write" /\ req[r2].data # NoDoc

(* ---------------------------------------------------------------------- *)
(* C10 Round-trip fidelity: the document returned by a cache hit for c is *)
(* the serialize-then-deserialize image of the document written by the    *)
(* miss that most recently populated "standings:"+c, and is equal to the  *)
(* document that miss returned to its own caller.                         *)
(* ---------------------------------------------------------------------- *)
C10_RoundTrip ==
    \A r \in Reqs :
       req[r].src = "cache"
       => /\ req[r].hitWriter \in Reqs
          /\ LET w == req[r].hitWriter
             IN  /\ req[w].src = "upstream"
                 /\ req[w].competitionId = req[r].competitionId
                 /\ req[r].body = Parse(Stringify(req[w].data))
                 /\ req[r].body = req[w].body

\* a hit returned the cached document after upstream had moved on
C10_Witness ==
    \E r \in Reqs :
       /\ req[r].src = "cache"
       /\ req[r].body.table # <<>>
       /\ req[r].body # UpstreamDoc(req[r].competitionId, upVer[req[r].competitionId])

(* ---------------------------------------------------------------------- *)
(* C11 (as stated) Write-before-respond ordering: a request for c that    *)
(* starts after another request's write for c has completed and its 200   *)
(* has been sent, and less than 900 seconds after that write, is a cache  *)
(* hit (once its cache read has returned): it issues no upstream call and *)
(* returns the body of that 200.                                          *)
(* ---------------------------------------------------------------------- *)
C11_HitAfterResponse ==
    \A r \in Reqs :
       (/\ req[r].startWriter # 0
        /\ req[r].pc # "read"
        /\ req[r].fail # "read")
       => /\ req[r].src = "cache"
          /\ req[r].upcalls = 0
          /\ req[r].body = req[req[r].startWriter].body

(* C11 (amended) The setEx of a successful miss completes before its 200  *)
(* is sent, so a cache read for c that returns less than 900 seconds      *)
(* after the most recent completed write for c is a hit: the request      *)
(* issues no upstream call and returns the body of that most recent       *)
(* write.                                                                 *)
C11_HitAfterWrite ==
    [][\A r \in Reqs :
         LET c == req[r].competitionId IN
         /\ WriteReturns(r)
            => /\ req[r].responses = 0
               /\ req'[r].responses = 1
               /\ \E e \in EntriesFor(cache', c) : e.value = Stringify(req'[r].body)
         /\ (ReadReturns(r) /\ FreshWriter(c) # 0)
            => /\ req'[r].src = "cache"
               /\ req'[r].upcalls = 0
               /\ req'[r].body = req[FreshWriter(c)].body]_vars

\* a request that started after the writer's 200, when time had passed, hit
C11_Witness ==
    \E r \in Reqs :
       /\ req[r].startWriter # 0
       /\ req[r].src = "cache"
       /\ req[r].readAt > req[req[r].startWriter].wroteAt
       /\ req[r].body = req[req[r].startWriter].body

(* ---------------------------------------------------------------------- *)
(* C13 No de-duplication of concurrent misses: every request whose cache  *)
(* read found nothing has issued an upstream call of its own, also when   *)
(* another request for the same competition is already fetching; every    *)
(* request whose upstream call and setEx succeeded has written the cache; *)
(* the entry that remains for a competition is the one written last, with *)
(* its expiry 900 seconds after that last write.                          *)
(* ---------------------------------------------------------------------- *)
Missed(r) == req[r].reads = 1 /\ req[r].cachedData = Null /\ req[r].fail # "read"

C13_NoDeduplication ==
    \A c \in Comps :
       /\ \A r \in Reqs :
             req[r].competitionId = c
             => /\ Missed(r) => req[r].upcalls = 1
                /\ req[r].src = "upstream" => req[r].writes = 1
       /\ lastWriter[c] # 0
          => LET w == lastWriter[c] IN
             /\ req[w].src = "upstream" /\ req[w].competitionId = c
             /\ EntriesFor(cache, c) =
                   {[key |-> redisKey(c), value |-> Stringify(req[w].data),
                     exp |-> req[w].wroteAt + TTL]}
             /\ \A q \in Reqs :
                   (req[q].src = "upstream" /\ req[q].competitionId = c)
                   => req[q].wroteAt <= req[w].wroteAt

\* two requests both read the empty cache before either wrote; both fetched
\* and wrote, with different documents, and the later write remains
C13_Witness ==
    \E r1, r2 \in Reqs :
       /\ r1 # r2
       /\ req[r1].src = "upstream" /\ req[r2].src = "upstream"
       /\ req[r1].competitionId = req[r2].competitionId
       /\ req[r1].fetchedAt < req[r2].wroteAt + TTL
       /\ req[r2].fetchedAt < req[r1].wroteAt + TTL
       /\ req[r1].data # req[r2].data
       /\ lastWriter[req[r1].competitionId] = r2
       /\ req[r2].wroteAt > req[r1].wroteAt
       /\ \E e \in EntriesFor(cache, req[r2].competitionId) :
             e.value = Stringify(req[r2].data) /\ e.exp = req[r2].wroteAt + TTL

(* ---------------------------------------------------------------------- *)
(* C14 Per-request side effects: a request performs one cache read; once  *)
(* the read is over it has issued an upstream call if and only if the     *)
(* read was a miss, and never more than one (a failed call is not         *)
(* retried); it has issued a cache write if and only if its upstream call *)
(* succeeded, and never more than one.                                    *)
(* ---------------------------------------------------------------------- *)
C14_SideEffects ==
    \A r \in Reqs :
       /\ req[r].reads <= 1 /\ req[r].upcalls <= 1
       /\ req[r].setexs <= 1 /\ req[r].writes <= req[r].setexs
       /\ req[r].pc \notin {"idle", "read"}
          => /\ req[r].reads = 1
             /\ req[r].upcalls = 1 <=> Missed(r)
       /\ req[r].pc \in {"idle", "read"}
          => req[r].reads = 0 /\ req[r].upcalls = 0 /\ req[r].setexs = 0
       /\ req[r].setexs = 1 <=> req[r].data # NoDoc
       /\ req[r].data # NoDoc => req[r].upcalls = 1 /\ req[r].pc \in {"write", "done"}
       /\ req[r].fail = "upstream"
          => req[r].pc = "done" /\ req[r].upcalls = 1 /\ req[r].setexs = 0

\* one request missed, called upstream once and wrote once; another was served
\* from the cache with a single read
C14_Witness ==
    \E r1, r2 \in Reqs :
       /\ req[r1].pc = "done" /\ req[r1].src = "upstream" /\ req[r1].reads = 1
       /\ req[r1].upcalls = 1 /\ req[r1].setexs = 1 /\ req[r1].writes = 1
       /\ req[r2].pc = "done" /\ req[r2].src = "cache"
       /\ req[r2].reads = 1 /\ req[r2].upcalls = 0 /\ req[r2].setexs = 0

(* ---------------------------------------------------------------------- *)
(* C15 (as stated) Request completion: a request waits at only two        *)
(* points, the cache read and the upstream call: a request in flight is   *)
(* waiting for one of the two, and a request whose cache read and (on a   *)
(* miss) upstream call have completed has received its response.          *)
(* ---------------------------------------------------------------------- *)
C15_TwoWaitPoints ==
    \A r \in Reqs :
       /\ InFlight(r) => req[r].pc \in {"read", "fetch"}
       /\ (/\ req[r].reads = 1
           /\ req[r].upcalls = 1 => (req[r].data # NoDoc \/ req[r].fail = "upstream"))
          => req[r].pc = "done"

(* C15 (amended) A request waits at three points, the cache read, the     *)
(* upstream call (on a miss) and the cache write (after a successful      *)
(* upstream call); if each of them eventually completes, every request    *)
(* that has arrived eventually receives its response, whatever the other  *)
(* requests do.                                                           *)
C15_EventuallyResponds ==
    \A r \in Reqs : (req[r].pc # "idle") ~> (req[r].pc = "done" /\ req[r].responses = 1)

\* one request has got its response after waiting at all three points while
\* another still waits for its cache write
C15_Witness ==
    \E r1, r2 \in Reqs :
       /\ req[r1].pc = "done" /\ req[r1].responses = 1
       /\ req[r1].reads = 1 /\ req[r1].upcalls = 1 /\ req[r1].writes = 1
       /\ req[r2].pc = "write" /\ req[r2].responses = 0

(* ---------------------------------------------------------------------- *)
(* C17 (as stated) Cached snapshots never move backwards: when a request  *)
(* has written for a competition a document it obtained from upstream at  *)
(* time t, no request that writes later for that competition stores a     *)
(* document obtained before t, overlapping requests included.             *)
(* ---------------------------------------------------------------------- *)
Wrote(r, c) == req[r].src = "upstream" /\ req[r].competitionId = c

C17_NeverBackwards ==
    \A c \in Comps :
       \A w, r \in Reqs :
          (Wrote(w, c) /\ Wrote(r, c) /\ req[w].wroteAt < req[r].wroteAt)
          => req[r].gotAt >= req[w].gotAt

(* C17 (amended) Every cache write stores the document its own request    *)
(* obtained from upstream; among requests for a competition that have not *)
(* been handled at overlapping times, a later write never stores a        *)
(* document obtained before, or older than, the one written earlier.      *)
Ver(d) == CHOOSE v \in Versions : Tables[v] = d.table

C17_NeverBackwardsSerial ==
    \A c \in Comps :
       lastWriter[c] # 0
       => LET r == lastWriter[c] IN
          /\ \A e \in EntriesFor(cache, c) :
                /\ e.value = Stringify(req[r].data)
                /\ req[r].gotAt <= req[r].wroteAt
                /\ e.exp - TTL = req[r].wroteAt
          /\ ~overlapped[c]
             => \A w \in Reqs \ {r} :
                   Wrote(w, c)
                   => /\ req[r].gotAt >= req[w].wroteAt
                      /\ req[r].gotAt >= req[w].gotAt
                      /\ \A e \in EntriesFor(cache, c) :
                            Ver(Parse(e.value)) >= Ver(req[w].data)

\* two requests handled one after the other wrote; the second stored a newer
\* document obtained later
C17_Witness ==
    \E w, r \in Reqs :
       /\ w # r
       /\ req[w].src = "upstream" /\ req[r].src = "upstream"
       /\ req[w].competitionId = req[r].competitionId
       /\ ~overlapped[req[r].competitionId]
       /\ lastWriter[req[r].competitionId] = r
       /\ req[r].gotAt > req[w].gotAt
       /\ Ver(req[r].data) > Ver(req[w].data)

(* ---------------------------------------------------------------------- *)
(* C12 One generic message for any failure: whenever a fetch issued by    *)
(* the UI fails (the fetch is rejected, the status is not OK, or the body *)
(* does not parse), the error state is the fixed message whatever the     *)
(* cause, the loading flag is cleared, and the view renders that message  *)
(* and no standings table.  The error state never holds another text.     *)
(* ---------------------------------------------------------------------- *)
FetchFails(f) == Pending(f) /\ ui'.fetch[f].outcome = "error"

C12_GenericErrorMessage ==
    [][/\ ui'.error \in {null, ErrorMessage}
       /\ \A f \in Fetches :
             FetchFails(f)
             => /\ ui'.fetch[f].cause \in {"network", "status", "body"}
                /\ ui'.error = ErrorMessage
                /\ ~ui'.loading
                /\ View(ui') = "error"
                /\ ui'.message = ErrorMessage
                /\ ui'.shown = <<>>]_vars

\* fetches have failed for each of the three causes and the message is shown
C12_Witness ==
    /\ \A cause \in {"network", "status", "body"} :
          \E f \in Fetches : ui.fetch[f].outcome = "error" /\ ui.fetch[f].cause = cause
    /\ ui.message = ErrorMessage
    /\ ~ui.loading

(* ---------------------------------------------------------------------- *)
(* C16 The UI renders the result of the selected competition: once no     *)
(* fetch is in flight, the view shows the outcome (document or error) of  *)
(* the fetch issued for the current selection, the last one issued, and   *)
(* not the outcome of a fetch issued for an earlier selection.            *)
(* ---------------------------------------------------------------------- *)
C16_ShowsSelected ==
    (ui.issued > 0 /\ \A f \in Fetches : ~Pending(f))
    => LET last == ui.fetch[ui.issued] IN
       /\ last.competition = ui.selectedCompetition
       /\ last.outcome = "error" => View(ui) = "error"
       /\ last.outcome = "data"
          => /\ View(ui) = "table"
             /\ ui.standings.competition = ui.selectedCompetition
             /\ ui.received = last.data

(* ---------------------------------------------------------------------- *)
(* C18 Viewing statistics does not reorder the standings: rendering the   *)
(* rankings of the Team Stats tab leaves the row order of the fetched     *)
(* table unchanged, and the Standings tab lists the rows in the order     *)
(* received from the service.                                             *)
(* ---------------------------------------------------------------------- *)
C18_StandingsOrderKept ==
    View(ui) = "table"
    => /\ totalStandings(ui.standings).table = totalStandings(ui.received).table
       /\ ui.shown = Teams(totalStandings(ui.received).table)

(* ---------------------------------------------------------------------- *)
(* C19 The loading flag tracks the fetches in flight: while a fetch is    *)
(* pending, the one for the selected competition included, the loading    *)
(* flag is true and the skeleton is shown.                                *)
(* ---------------------------------------------------------------------- *)
C19_LoadingTracksFetches ==
    \A f \in Fetches :
       Pending(f) => ui.loading /\ View(ui) = "skeleton"
====
